---- MODULE Spec2Model ----
(***************************************************************************)
(* A model of mia_genius_scraper.py: the country index builder, the        *)
(* mention matcher, song discovery over the paginated search API, and the  *)
(* main run that fetches lyrics, matches, merges sample rows and writes    *)
(* the report.                                                             *)
(*                                                                         *)
(* A Python str is modelled as a sequence of one-character strings, so     *)
(* that lower(), find(), the \b word boundary and the snippet window are   *)
(* computed character by character.                                        *)
(***************************************************************************)
EXTENDS Integers, Sequences, FiniteSets, TLC

VARIABLES
    \* ---- build_country_index
    ipc,            \* position in build_country_index
    aliasTable,     \* EXTRA_ALIASES: sequence of <<iso3, aliases>>
    enrichTable,    \* EXTRA_ENRICHMENTS: sequence of <<iso3, enrich>>
    countries,      \* the dict being built: iso3 -> info
    icur,           \* loop index of the current for loop
    \* ---- find_matches
    mpc,            \* position in find_matches
    lyrics,         \* argument lyrics
    meta_text,      \* argument meta_text
    mcur,           \* index of the country of the current iteration
    types_for_country,
    found,          \* the result dict, as a sequence of [iso3, types]
    passlog,        \* history: per finished country, the records of each pass
    \* ---- main / search_mia_songs / genius_get
    pc,             \* position in main
    token,          \* GENIUS_TOKEN is set
    limit,          \* args.limit
    add_samples,    \* the rows of the --add-samples CSV, or <<>> without it
    results,        \* search_mia_songs: results dict, as a sequence of records
    page,           \* search_mia_songs: page
    fetched,        \* search_mia_songs: fetched
    sent,           \* history: the search requests sent, in order
    lastget,        \* history: the last finished genius_get call
    firstSeen,      \* history: id -> first hit seen with that id
    firstAccepted,  \* history: id -> first hit with that id and an accepted artist
    songs,          \* main: songs
    si,             \* main: number of songs processed
    fetchlog,       \* history: per processed song, the lyrics the fetcher returned
    rows,           \* main: rows
    outfile         \* history: the contents written to args.out, one per write

indexVars == <<ipc, aliasTable, enrichTable, countries, icur>>
matchVars == <<mpc, lyrics, meta_text, mcur, types_for_country, found, passlog>>
mainVars == <<pc, token, limit, add_samples, results, page, fetched, sent, lastget,
              firstSeen, firstAccepted, songs, si, fetchlog, rows, outfile>>
vars == <<indexVars, matchVars, mainVars>>

(***************************************************************************)
(* Bounds                                                                  *)
(***************************************************************************)
MaxLyricsLen == 3       \* longest enumerated lyrics text
MaxMetaLen == 1         \* longest enumerated metadata text
MaxList == 2            \* longest list a table supplies for one key
MaxPages == 3           \* search pages the remote is asked for at most
MaxHits == 2            \* most hits on one search page
MaxLimit == 2           \* largest --limit
MaxCsvRows == 2         \* most rows of the sample CSV

(***************************************************************************)
(* Characters and strings                                                  *)
(***************************************************************************)
Max(a, b) == IF a >= b THEN a ELSE b
Min(a, b) == IF a <= b THEN a ELSE b

\* ord(c)
CharCode(c) ==
    CASE c = "\n" -> 10
      [] c = " " -> 32
      [] c = "." -> 46
      [] c = "A" -> 65
      [] c = "B" -> 66
      [] c = "K" -> 75
      [] c = "X" -> 88
      [] c = "\\" -> 92
      [] c = "a" -> 97
      [] c = "b" -> 98

\* str.lower(), one character
LowerChar(c) ==
    CASE c = "A" -> "a"
      [] c = "B" -> "b"
      [] OTHER -> c

\* str.lower()
Lower(s) == [i \in 1..Len(s) |-> LowerChar(s[i])]

\* \w of the re module
IsWordChar(c) == c \in {"a", "b", "A", "B"}

\* \s of the re module, and what str.strip() removes
IsSpace(c) == c \in {" ", "\n"}

\* s[i:i+len(t)] == t, i counted from 0
Occurs(s, t, i) ==
    /\ i + Len(t) <= Len(s)
    /\ \A k \in 1..Len(t) : s[i + k] = t[k]

\* str.find: the lowest index of an occurrence, or -1
Find(s, t) ==
    IF \E i \in 0..Len(s) : Occurs(s, t, i)
    THEN CHOOSE i \in 0..Len(s) :
            Occurs(s, t, i) /\ \A j \in 0..(i - 1) : ~Occurs(s, t, j)
    ELSE -1

\* s[start:end]
Slice(s, start, end) == SubSeq(s, start + 1, end)

\* str.strip(): from the first to the last character that is not whitespace
Strip(s) ==
    LET solid == {i \in 1..Len(s) : ~IsSpace(s[i])}
    IN  IF solid = {} THEN <<>>
        ELSE SubSeq(s, CHOOSE i \in solid : \A j \in solid : i <= j,
                       CHOOSE i \in solid : \A j \in solid : i >= j)

\* str.replace("\n", " ")
ReplaceNewlines(s) == [i \in 1..Len(s) |-> IF s[i] = "\n" THEN " " ELSE s[i]]

\* re.sub(r"\s+", " ", s): each run of whitespace becomes one space
CollapseSpaces(s) ==
    LET first == SelectSeq([i \in 1..Len(s) |-> i],
                           LAMBDA i : ~IsSpace(s[i]) \/ i = 1 \/ ~IsSpace(s[i - 1]))
    IN  [k \in 1..Len(first) |-> IF IsSpace(s[first[k]]) THEN " " ELSE s[first[k]]]

\* Python's order on str: lexicographic by code point
RECURSIVE StrLess(_, _)
StrLess(s, t) ==
    IF t = <<>> THEN FALSE
    ELSE IF s = <<>> THEN TRUE
    ELSE IF Head(s) # Head(t) THEN CharCode(Head(s)) < CharCode(Head(t))
    ELSE StrLess(Tail(s), Tail(t))

\* sorted(S) for a set of str
RECURSIVE SortedStrs(_)
SortedStrs(S) ==
    IF S = {} THEN <<>>
    ELSE LET m == CHOOSE x \in S : \A y \in S \ {x} : StrLess(x, y)
         IN  <<m>> \o SortedStrs(S \ {m})

Range(s) == {s[i] : i \in 1..Len(s)}
NoDup(s) == \A i, j \in 1..Len(s) : i # j => s[i] # s[j]

\* all sequences over S of length at most n
SeqsUpTo(S, n) == UNION {[1..k -> S] : k \in 0..n}

None == "None"

\* dict.get(k): the value, or None
Get(d, k) == IF k \in DOMAIN d THEN d[k] ELSE None

(***************************************************************************)
(* Country scaffolding.  The catalogue and the tables are stand-ins with   *)
(* short strings over the characters above: "IND" and "USA" are in the     *)
(* catalogue, "XKX" is a code the catalogue does not have.                 *)
(***************************************************************************)
PlainKeys == {"aliases", "languages", "cities"}
ListKeys == {"aliases", "languages", "cities", "patterns"}

\* the iteration order of pycountry.countries
SeedOrder == <<"IND", "USA">>

SeedName(iso3) == IF iso3 = "IND" THEN <<"A", "b">> ELSE <<"B", "a">>

\* seed_countries_from_pycountry
seed_countries_from_pycountry ==
    [iso3 \in Range(SeedOrder) |->
        [name |-> SeedName(iso3), aliases |-> <<>>, languages |-> <<>>,
         cities |-> <<>>, patterns |-> <<>>]]

\* countries[iso3]["aliases"].extend(aliases), when iso3 is in countries
MergeAliases(cs, iso3, aliases) ==
    IF iso3 \in DOMAIN cs
    THEN [cs EXCEPT ![iso3].aliases = @ \o aliases]
    ELSE cs

\* for k in (...): if k in enrich: countries[iso3][k].extend(enrich[k])
MergeEnrichment(cs, iso3, enrich) ==
    IF iso3 \notin DOMAIN cs
    THEN cs
    ELSE [cs EXCEPT ![iso3] =
            [k \in DOMAIN @ |->
                IF k \in ListKeys /\ k \in DOMAIN enrich THEN @[k] \o enrich[k] ELSE @[k]]]

\* a variant that removes duplicates before it lowercases
LowerOfSortedSet(xs) ==
    LET u == SortedStrs(Range(xs)) IN [i \in 1..Len(u) |-> Lower(u[i])]

\* sorted(set(s.lower() for s in xs))
SortedLowerSet(xs) == SortedStrs({Lower(x) : x \in Range(xs)})

\* sorted(set(xs))
SortedSet(xs) == SortedStrs(Range(xs))

\* the body of the de-dup loop, for one country
NormalizeInfo(info) ==
    [k \in DOMAIN info |->
        IF k \in PlainKeys THEN SortedLowerSet(info[k])
        ELSE IF k = "patterns" THEN SortedSet(info[k])
        ELSE info[k]]

RECURSIVE MergeAllAliases(_, _)
MergeAllAliases(cs, table) ==
    IF table = <<>> THEN cs
    ELSE MergeAllAliases(MergeAliases(cs, Head(table)[1], Head(table)[2]), Tail(table))

RECURSIVE MergeAllEnrichments(_, _)
MergeAllEnrichments(cs, table) ==
    IF table = <<>> THEN cs
    ELSE MergeAllEnrichments(MergeEnrichment(cs, Head(table)[1], Head(table)[2]), Tail(table))

\* build_country_index, for given tables
build_country_index(aliases, enrichments) ==
    LET merged == MergeAllEnrichments(
                      MergeAllAliases(seed_countries_from_pycountry, aliases), enrichments)
    IN  [iso3 \in DOMAIN merged |-> NormalizeInfo(merged[iso3])]

\* A regex source of the form \bLIT\b, as EXTRA_ENRICHMENTS writes them
Pattern(lit) == <<"\\", "b">> \o lit \o <<"\\", "b">>

\* The tables the matcher's index is built from (stand-ins of lines 37-124)
EXTRA_ALIASES == << <<"IND", << <<"B">> >> >>, <<"XKX", << <<"a">> >> >> >>

EXTRA_ENRICHMENTS ==
    << <<"IND", [languages |-> << <<"a">> >>] >>,
       <<"USA", [languages |-> << <<"a">>, <<"a", "b">> >>,
                 cities |-> << <<"b", ".">> >>,
                 patterns |-> << Pattern(<<"B">>), Pattern(<<"A">>) >>] >> >>

\* GLOBAL_LANGUAGE_HINTS, in dict order: token -> iso3
GLOBAL_LANGUAGE_HINTS == << << <<"a">>, "IND" >>, << <<"b", "a">>, "USA" >> >>

COUNTRIES == build_country_index(EXTRA_ALIASES, EXTRA_ENRICHMENTS)

(***************************************************************************)
(* Match logic                                                             *)
(***************************************************************************)
\* the window argument's default
Window == 80

\* the snippet of the occurrence of a term of length n at offset idx of text
SnippetAt(text, idx, n) ==
    CollapseSpaces(ReplaceNewlines(Strip(
        Slice(text, Max(0, idx - Window), Min(Len(text), idx + n + Window)))))

\* a variant that looks for the terms only where they match as whole words
RECURSIVE extract_snippet_words(_, _)
extract_snippet_words(text, terms) ==
    IF terms = <<>> THEN <<>>
    ELSE LET t == Head(terms)
             at == {i \in 0..Len(text) :
                      /\ Occurs(Lower(text), Lower(t), i)
                      /\ (i >= 1 /\ text[i] \in {"a", "b", "A", "B"})
                           # (i < Len(text) /\ text[i + 1] \in {"a", "b", "A", "B"})
                      /\ (i + Len(t) >= 1 /\ text[i + Len(t)] \in {"a", "b", "A", "B"})
                           # (i + Len(t) < Len(text)
                                /\ text[i + Len(t) + 1] \in {"a", "b", "A", "B"})}
         IN  IF at # {}
             THEN SnippetAt(text, CHOOSE i \in at : \A j \in at : i <= j, Len(t))
             ELSE extract_snippet_words(text, Tail(terms))

\* extract_snippet(text, terms): the first term str.find finds decides
RECURSIVE extract_snippet(_, _)
extract_snippet(text, terms) ==
    IF terms = <<>> THEN <<>>
    ELSE LET t == Head(terms)
             idx == Find(Lower(text), Lower(t))
             start == Max(0, idx - Window)
             end == Min(Len(text), idx + Len(t) + Window)
         IN  IF idx # -1
             THEN CollapseSpaces(ReplaceNewlines(Strip(Slice(text, start, end))))
             ELSE extract_snippet(text, Tail(terms))

\* \b at offset p of text: exactly one side of the offset is a word character
Boundary(text, p) ==
    LET before == p >= 1 /\ IsWordChar(text[p])
        after == p < Len(text) /\ IsWordChar(text[p + 1])
    IN  before # after

\* safe_word_regex(token).search(text): \b, the escaped token, \b, ignoring case
WordSearch(tok, text) ==
    \E i \in 0..Len(text) :
        /\ Occurs(Lower(text), Lower(tok), i)
        /\ Boundary(text, i)
        /\ Boundary(text, i + Len(tok))

\* The literal a regex source \bLIT\b matches, "\." read as "."
RECURSIVE Unescape(_)
Unescape(s) ==
    IF s = <<>> THEN <<>>
    ELSE IF Head(s) = "\\" /\ Len(s) >= 2 THEN <<s[2]>> \o Unescape(SubSeq(s, 3, Len(s)))
    ELSE <<Head(s)>> \o Unescape(Tail(s))

PatternLiteral(pat) == Unescape(SubSeq(pat, 3, Len(pat) - 2))

\* re.search(pat, text, flags=re.IGNORECASE) for a source of the form \bLIT\b
PatternSearch(pat, text) == WordSearch(PatternLiteral(pat), text)

\* fulltext = f"{lyrics}\n{meta_text}"
FullText(l, m) == l \o <<"\n">> \o m

plain_terms(info) == <<info.name>> \o info.aliases \o info.cities

\* pass 1: country name & plain aliases/cities
PlainPass(info, l, fulltext) ==
    IF \E i \in 1..Len(plain_terms(info)) :
          plain_terms(info)[i] # <<>> /\ WordSearch(plain_terms(info)[i], fulltext)
    THEN << [type |-> "mention", lyric |-> extract_snippet(l, plain_terms(info))] >>
    ELSE <<>>

\* pass 2: explicit regex patterns
PatternPass(info, l, fulltext) ==
    LET hit == SelectSeq(info.patterns, LAMBDA pat : PatternSearch(pat, fulltext))
    IN  [i \in 1..Len(hit) |->
            [type |-> "mention", lyric |-> extract_snippet(l, <<hit[i]>>)]]

\* pass 3: language references
LanguagePass(info, l, fulltext) ==
    LET hit == SelectSeq(info.languages, LAMBDA lang : WordSearch(lang, fulltext))
    IN  [i \in 1..Len(hit) |->
            [type |-> "language", lyric |-> extract_snippet(l, <<hit[i]>>),
             language |-> hit[i]]]

\* a variant that skips a hint token the country already lists as a language
HintPassDedup(iso3, l, fulltext) ==
    LET hit == SelectSeq(GLOBAL_LANGUAGE_HINTS,
                         LAMBDA h : /\ h[2] = iso3
                                    /\ WordSearch(h[1], fulltext)
                                    /\ h[1] \notin Range(COUNTRIES[iso3].languages))
    IN  [i \in 1..Len(hit) |->
            [type |-> "language", lyric |-> extract_snippet(l, <<hit[i][1]>>),
             language |-> hit[i][1]]]

\* pass 4: global language hints
HintPass(iso3, l, fulltext) ==
    LET hit == SelectSeq(GLOBAL_LANGUAGE_HINTS,
                         LAMBDA h : h[2] = iso3 /\ WordSearch(h[1], fulltext))
    IN  [i \in 1..Len(hit) |->
            [type |-> "language", lyric |-> extract_snippet(l, <<hit[i][1]>>),
             language |-> hit[i][1]]]

\* a variant that stores the country whether or not it has records
StoreCountryAlways(fnd, iso3, types) == Append(fnd, [iso3 |-> iso3, types |-> types])

\* if types_for_country: found[iso3] = types_for_country
StoreCountry(fnd, iso3, types) ==
    IF types # <<>> THEN Append(fnd, [iso3 |-> iso3, types |-> types]) ELSE fnd

\* find_matches(lyrics, meta_text, countries), over the countries in dict order
RECURSIVE FindMatchesFrom(_, _, _, _, _)
FindMatchesFrom(l, m, cs, order, fnd) ==
    IF order = <<>> THEN fnd
    ELSE LET iso3 == Head(order)
             info == cs[iso3]
             f == FullText(l, m)
             types == PlainPass(info, l, f) \o PatternPass(info, l, f)
                        \o LanguagePass(info, l, f) \o HintPass(iso3, l, f)
         IN  FindMatchesFrom(l, m, cs, Tail(order), StoreCountry(fnd, iso3, types))

find_matches(l, m) == FindMatchesFrom(l, m, COUNTRIES, SeedOrder, <<>>)

(***************************************************************************)
(* Values of the variables of the parts a specification does not run       *)
(***************************************************************************)
\* line 163 has run: COUNTRIES = build_country_index()
IndexBuilt ==
    /\ ipc = "done"
    /\ aliasTable = EXTRA_ALIASES
    /\ enrichTable = EXTRA_ENRICHMENTS
    /\ countries = COUNTRIES
    /\ icur = 0

MatchIdle ==
    /\ mpc = "idle"
    /\ lyrics = <<>>
    /\ meta_text = <<>>
    /\ mcur = 0
    /\ types_for_country = <<>>
    /\ found = <<>>
    /\ passlog = <<>>

MainIdle ==
    /\ pc = "idle"
    /\ token = FALSE
    /\ limit = 0
    /\ add_samples = <<>>
    /\ results = <<>>
    /\ page = 0
    /\ fetched = 0
    /\ sent = <<>>
    /\ lastget = <<>>
    /\ firstSeen = <<>>
    /\ firstAccepted = <<>>
    /\ songs = <<>>
    /\ si = 0
    /\ fetchlog = <<>>
    /\ rows = <<>>
    /\ outfile = <<>>

(***************************************************************************)
(* build_country_index, step by step, over the tables it may be given      *)
(***************************************************************************)
\* the strings a table may list: mixed case, and equal after lower()
TableStrs == { <<"A", "b">>, <<"a", "b">>, <<"b">> }

\* the regex sources a table may list: equal but for case
TablePatterns == { Pattern(<<"A">>), Pattern(<<"a">>) }

\* EXTRA_ALIASES: an entry for "IND", with or without one for the unknown "XKX"
AliasTables ==
    UNION { { << <<"IND", a>> >>, << <<"XKX", << <<"B">> >> >>, <<"IND", a>> >> }
            : a \in SeqsUpTo(TableStrs, MaxList) }

\* the enrichment of one code: any of the four keys may be missing
Enrichments ==
    UNION { { [languages |-> g],
              [cities |-> g, aliases |-> << <<"A", "b">> >>],
              [languages |-> g, patterns |-> p] }
            : g \in SeqsUpTo(TableStrs, MaxList),
              p \in SeqsUpTo(TablePatterns, 2) }

\* EXTRA_ENRICHMENTS: one entry, for a known or an unknown code
EnrichTables == { << <<c, e>> >> : c \in {"IND", "XKX"}, e \in Enrichments }

InitIndex ==
    /\ ipc = "aliases"
    /\ aliasTable \in AliasTables
    /\ enrichTable \in EnrichTables
    /\ countries = seed_countries_from_pycountry
    /\ icur = 1
    /\ MatchIdle
    /\ MainIdle

\* lines 142-144, one iteration
MergeAliasesStep ==
    /\ ipc = "aliases"
    /\ icur <= Len(aliasTable)
    /\ countries' = MergeAliases(countries, aliasTable[icur][1], aliasTable[icur][2])
    /\ icur' = icur + 1
    /\ UNCHANGED <<ipc, aliasTable, enrichTable, matchVars, mainVars>>

MergeAliasesEnd ==
    /\ ipc = "aliases"
    /\ icur > Len(aliasTable)
    /\ ipc' = "enrich"
    /\ icur' = 1
    /\ UNCHANGED <<aliasTable, enrichTable, countries, matchVars, mainVars>>

\* lines 147-152, one iteration
MergeEnrichmentStep ==
    /\ ipc = "enrich"
    /\ icur <= Len(enrichTable)
    /\ countries' = MergeEnrichment(countries, enrichTable[icur][1], enrichTable[icur][2])
    /\ icur' = icur + 1
    /\ UNCHANGED <<ipc, aliasTable, enrichTable, matchVars, mainVars>>

MergeEnrichmentEnd ==
    /\ ipc = "enrich"
    /\ icur > Len(enrichTable)
    /\ ipc' = "normalize"
    /\ icur' = 1
    /\ UNCHANGED <<aliasTable, enrichTable, countries, matchVars, mainVars>>

\* lines 155-159, one iteration
NormalizeStep ==
    /\ ipc = "normalize"
    /\ icur <= Len(SeedOrder)
    /\ countries' = [countries EXCEPT ![SeedOrder[icur]] = NormalizeInfo(@)]
    /\ icur' = icur + 1
    /\ UNCHANGED <<ipc, aliasTable, enrichTable, matchVars, mainVars>>

\* line 161
ReturnCountries ==
    /\ ipc = "normalize"
    /\ icur > Len(SeedOrder)
    /\ ipc' = "done"
    /\ UNCHANGED <<aliasTable, enrichTable, countries, icur, matchVars, mainVars>>

NextIndex ==
    \/ MergeAliasesStep
    \/ MergeAliasesEnd
    \/ MergeEnrichmentStep
    \/ MergeEnrichmentEnd
    \/ NormalizeStep
    \/ ReturnCountries

SpecIndex == InitIndex /\ [][NextIndex]_vars

(***************************************************************************)
(* find_matches, pass by pass, over the texts it may be given              *)
(***************************************************************************)
TextChars == {"a", "b", "B", " ", "."}

\* n copies of "."
Dots(n) == [i \in 1..n |-> "."]

\* lyrics longer than the snippet window on both sides of a term
LongLyrics ==
    { <<"b", "b">> \o Dots(Window) \o <<"A", "b">> \o Dots(Window) \o <<"b">>,
      <<"a", "\n", " ">> \o Dots(Window) \o <<" ", "b", "a", " ", "\n">> \o Dots(Window) }

LyricsInputs == SeqsUpTo(TextChars, MaxLyricsLen) \cup LongLyrics
MetaInputs == SeqsUpTo(TextChars, MaxMetaLen)

InitMatch ==
    /\ IndexBuilt
    /\ mpc = "plain"
    /\ lyrics \in LyricsInputs
    /\ meta_text \in MetaInputs
    /\ mcur = 1
    /\ types_for_country = <<>>
    /\ found = <<>>
    /\ passlog = <<>>
    /\ MainIdle

CurIso == SeedOrder[mcur]
CurInfo == countries[CurIso]

\* lines 243-247
MatchPlain ==
    /\ mpc = "plain"
    /\ LET recs == PlainPass(CurInfo, lyrics, FullText(lyrics, meta_text))
       IN  /\ types_for_country' = types_for_country \o recs
           /\ passlog' = Append(passlog, [iso3 |-> CurIso, pass |-> "plain", recs |-> recs])
    /\ mpc' = "patterns"
    /\ UNCHANGED <<lyrics, meta_text, mcur, found, indexVars, mainVars>>

\* lines 249-253
MatchPatterns ==
    /\ mpc = "patterns"
    /\ LET recs == PatternPass(CurInfo, lyrics, FullText(lyrics, meta_text))
       IN  /\ types_for_country' = types_for_country \o recs
           /\ passlog' = Append(passlog, [iso3 |-> CurIso, pass |-> "patterns", recs |-> recs])
    /\ mpc' = "languages"
    /\ UNCHANGED <<lyrics, meta_text, mcur, found, indexVars, mainVars>>

\* lines 255-259
MatchLanguages ==
    /\ mpc = "languages"
    /\ LET recs == LanguagePass(CurInfo, lyrics, FullText(lyrics, meta_text))
       IN  /\ types_for_country' = types_for_country \o recs
           /\ passlog' = Append(passlog, [iso3 |-> CurIso, pass |-> "languages", recs |-> recs])
    /\ mpc' = "hints"
    /\ UNCHANGED <<lyrics, meta_text, mcur, found, indexVars, mainVars>>

\* lines 261-265
MatchHints ==
    /\ mpc = "hints"
    /\ LET recs == HintPass(CurIso, lyrics, FullText(lyrics, meta_text))
       IN  /\ types_for_country' = types_for_country \o recs
           /\ passlog' = Append(passlog, [iso3 |-> CurIso, pass |-> "hints", recs |-> recs])
    /\ mpc' = "store"
    /\ UNCHANGED <<lyrics, meta_text, mcur, found, indexVars, mainVars>>

\* lines 267-268, then the next country or the return of line 270
MatchStore ==
    /\ mpc = "store"
    /\ found' = StoreCountry(found, CurIso, types_for_country)
    /\ types_for_country' = <<>>
    /\ mcur' = mcur + 1
    /\ mpc' = IF mcur = Len(SeedOrder) THEN "done" ELSE "plain"
    /\ UNCHANGED <<lyrics, meta_text, passlog, indexVars, mainVars>>

NextMatch ==
    \/ MatchPlain
    \/ MatchPatterns
    \/ MatchLanguages
    \/ MatchHints
    \/ MatchStore

SpecMatch == InitMatch /\ [][NextMatch]_vars

(***************************************************************************)
(* Claims about find_matches (checked under SpecMatch)                     *)
(***************************************************************************)
FoundKeys == {found[i].iso3 : i \in 1..Len(found)}

\* the list the result maps iso3 to, <<>> when iso3 is no key
TypesOf(iso3) ==
    IF iso3 \in FoundKeys
    THEN found[CHOOSE i \in 1..Len(found) : found[i].iso3 = iso3].types
    ELSE <<>>

\* C1: the result of find_matches has a country code as key if and only if one
\* of the four passes emitted a record for that country; no key maps to an
\* empty list, every key is a code of the index, and no code is a key twice.
C1_KeysAreCountriesWithRecords ==
    mpc = "done" =>
        /\ FoundKeys = {passlog[k].iso3 : k \in {j \in 1..Len(passlog) : passlog[j].recs # <<>>}}
        /\ \A i \in 1..Len(found) : found[i].types # <<>>
        /\ FoundKeys \subseteq DOMAIN countries
        /\ \A i, j \in 1..Len(found) : found[i].iso3 = found[j].iso3 => i = j

\* find_matches returned, one country with records and one left out
C1_Witness ==
    /\ mpc = "done"
    /\ Len(found) = 1
    /\ \E k \in 1..Len(passlog) : passlog[k].iso3 \notin FoundKeys

\* what C2 says of a record: its type and, for a language record, its token
Shape(recs) == [i \in 1..Len(recs) |-> <<recs[i].type, Get(recs[i], "language")>>]

Repeat(n, x) == [i \in 1..n |-> x]

\* C2: the list of a country holds one mention record if any plain term matches
\* as a whole word (one, however many match), then one mention record per
\* matching pattern, then one language record per matching language token of
\* the country, then one language record per matching hint token that targets
\* the country; nothing is removed across passes.
C2_RecordsPerPass ==
    mpc = "done" =>
        \A c \in Range(SeedOrder) :
            LET info == countries[c]
                f == FullText(lyrics, meta_text)
                terms == plain_terms(info)
                plain == IF \E t \in Range(terms) : t # <<>> /\ WordSearch(t, f) THEN 1 ELSE 0
                pats == Cardinality({p \in Range(info.patterns) : PatternSearch(p, f)})
                langs == SelectSeq(info.languages, LAMBDA g : WordSearch(g, f))
                hints == SelectSeq(GLOBAL_LANGUAGE_HINTS,
                                   LAMBDA h : h[2] = c /\ WordSearch(h[1], f))
            IN  Shape(TypesOf(c)) =
                    Repeat(plain + pats, <<"mention", None>>)
                      \o [i \in 1..Len(langs) |-> <<"language", langs[i]>>]
                      \o [i \in 1..Len(hints) |-> <<"language", hints[i][1]>>]

\* a token that is a language of "IND" and hinted to "IND" gave two records,
\* after a single mention record for two matching plain terms
C2_Witness ==
    /\ mpc = "done"
    /\ Shape(TypesOf("IND")) = << <<"mention", None>>, <<"language", <<"a">> >>,
                                  <<"language", <<"a">> >> >>
    /\ WordSearch(<<"A", "b">>, FullText(lyrics, meta_text))
    /\ WordSearch(<<"b">>, FullText(lyrics, meta_text))

\* the plain-term passes that emitted their record
PlainEmitted == {k \in 1..Len(passlog) : passlog[k].pass = "plain" /\ passlog[k].recs # <<>>}

\* C9 as stated: the snippet of the plain-term record is the window around the
\* first term, in term-list order, that matches as a whole word in the lyrics
\* alone, and the empty string when no term matches as a whole word there.
C9_SnippetOfFirstWholeWordTerm ==
    \A k \in PlainEmitted :
        LET terms == plain_terms(countries[passlog[k].iso3])
            ww == {i \in 1..Len(terms) : WordSearch(terms[i], lyrics)}
            first == CHOOSE i \in ww : \A j \in ww : i <= j
            snippet == passlog[k].recs[1].lyric
        IN  IF ww = {} THEN snippet = <<>>
            ELSE \E idx \in 0..Len(lyrics) :
                    /\ Occurs(Lower(lyrics), Lower(terms[first]), idx)
                    /\ snippet = SnippetAt(lyrics, idx, Len(terms[first]))

\* C9 as amended: the snippet is the window around the first occurrence, as a
\* substring and ignoring case, of the first term in term-list order that occurs
\* in the lyrics at all; it is empty only when no term occurs in the lyrics.
C9_SnippetOfFirstOccurringTerm ==
    \A k \in PlainEmitted :
        LET terms == plain_terms(countries[passlog[k].iso3])
            occ == {i \in 1..Len(terms) :
                      \E idx \in 0..Len(lyrics) : Occurs(Lower(lyrics), Lower(terms[i]), idx)}
            first == CHOOSE i \in occ : \A j \in occ : i <= j
            at == {idx \in 0..Len(lyrics) : Occurs(Lower(lyrics), Lower(terms[first]), idx)}
            snippet == passlog[k].recs[1].lyric
        IN  IF occ = {} THEN snippet = <<>>
            ELSE snippet = SnippetAt(lyrics, CHOOSE i \in at : \A j \in at : i <= j,
                                     Len(terms[first]))

\* a plain-term record whose term matched as a whole word only in the metadata
\* and whose snippet is not empty: a term is part of a longer word of the lyrics
C9_Witness ==
    \E k \in PlainEmitted :
        /\ \A t \in Range(plain_terms(countries[passlog[k].iso3])) : ~WordSearch(t, lyrics)
        /\ passlog[k].recs[1].lyric # <<>>

\* a plain-term record whose snippet window cuts the lyrics on both sides
C9_WindowWitness ==
    \E k \in PlainEmitted :
        /\ Len(lyrics) > 2 * Window
        /\ passlog[k].recs[1].lyric # <<>>
        /\ Len(passlog[k].recs[1].lyric) < Len(lyrics) - 2

(***************************************************************************)
(* Claims about build_country_index (checked under SpecIndex)              *)
(***************************************************************************)
HasUpper(str) == \E i \in 1..Len(str) : str[i] \in {"A", "B"}

\* every string the two tables list for iso3 under key k
Supplied(iso3, k) ==
    UNION ( { Range(aliasTable[i][2]) :
                i \in {j \in 1..Len(aliasTable) : aliasTable[j][1] = iso3 /\ k = "aliases"} }
            \cup
            { Range(enrichTable[i][2][k]) :
                i \in {j \in 1..Len(enrichTable) :
                         enrichTable[j][1] = iso3 /\ k \in DOMAIN enrichTable[j][2]} } )

\* C8: after build_country_index, aliases, languages and cities of every code
\* hold no duplicate and no uppercase character, whatever the tables supply;
\* patterns hold no duplicate and are the supplied sources in their own case;
\* a code of the tables that the seed lacks adds no entry.
C8_IndexNormalized ==
    ipc = "done" =>
        /\ DOMAIN countries = Range(SeedOrder)
        /\ \A c \in DOMAIN countries :
            /\ \A k \in PlainKeys :
                /\ NoDup(countries[c][k])
                /\ \A i \in 1..Len(countries[c][k]) : ~HasUpper(countries[c][k][i])
                /\ Cardinality(Range(countries[c][k])) <= Cardinality(Supplied(c, k))
                /\ Supplied(c, k) = {} <=> countries[c][k] = <<>>
            /\ NoDup(countries[c].patterns)
            /\ Range(countries[c].patterns) = Supplied(c, "patterns")
            /\ countries[c].name = seed_countries_from_pycountry[c].name

\* the index is built from tables that list one alias of "IND" in both tables
\* and in two cases, two patterns that differ in case only, and an unknown code
C8_Witness ==
    /\ ipc = "done"
    /\ \E i \in 1..Len(aliasTable) : aliasTable[i][1] = "XKX"
    /\ {<<"A", "b">>, <<"a", "b">>} \subseteq Supplied("IND", "languages")
    /\ Len(countries["IND"].languages) = 1
    /\ Len(countries["IND"].patterns) = 2

\* the same alias in both tables, once in each case, is kept once
C8_WitnessBothTables ==
    /\ ipc = "done"
    /\ \E i \in 1..Len(aliasTable) :
          aliasTable[i][1] = "IND" /\ aliasTable[i][2] = << <<"a", "b">> >>
    /\ \E i \in 1..Len(enrichTable) :
          /\ enrichTable[i][1] = "IND"
          /\ "aliases" \in DOMAIN enrichTable[i][2]
    /\ countries["IND"].aliases = << <<"a", "b">> >>

(***************************************************************************)
(* Genius bits                                                             *)
(***************************************************************************)
\* the statuses the API answers with
Statuses == {200, 404, 429, 500}

\* a variant that asks again after any client or server error
RetryOnAnyError(status) == status >= 400

\* line 176: r.status_code == 429
RetryStatus(status) == status = 429

\* r.raise_for_status() raises for 4xx and 5xx
RaisesForStatus(status) == 400 <= status /\ status < 600

\* (pa.get("name") or "").lower().strip()
NormalizedArtist(name) ==
    CASE name = "M.I.A." -> "m.i.a."
      [] name = " Mia " -> "mia"
      [] name = "Diplo" -> "diplo"
      [] OTHER -> ""

\* line 191
AcceptedArtist(name) == NormalizedArtist(name) \in {"m.i.a.", "mia"}

SongIds == {1, 2}

\* the artist and title a hit may carry: an accepted artist under two
\* spellings and another artist
HitKinds ==
    { [artist |-> "M.I.A.", title |-> <<"b">>], [artist |-> " Mia ", title |-> <<".">>],
      [artist |-> "Diplo", title |-> <<"b">>] }

\* what a search hit carries: res.get("id"), res.get("title"),
\* pa.get("name"); url and display date follow from the id
Hits == {[id |-> i, title |-> k.title, artist |-> k.artist] : i \in SongIds, k \in HitKinds}

UrlOf(id) == IF id = 1 THEN "https://genius.com/1" ELSE "https://genius.com/2"

\* one page of the search: data["response"]["hits"]
Pages == SeqsUpTo(Hits, MaxHits)

\* lines 194-200
SongRecord(hit) ==
    [id |-> hit.id, title |-> hit.title, url |-> UrlOf(hit.id),
     release_date_for_display |-> None, primary_artist |-> hit.artist]

ResultIds(res) == {res[i].id : i \in 1..Len(res)}

\* a variant that keys the results by title instead of by id
RECURSIVE ScanHitsByTitle(_, _, _, _)
ScanHitsByTitle(hits, res, n, lim) ==
    IF hits = <<>> THEN [results |-> res, fetched |-> n]
    ELSE LET hit == Head(hits) IN
         IF AcceptedArtist(hit.artist) /\ hit.title \notin {res[i].title : i \in 1..Len(res)}
         THEN IF n + 1 >= lim
              THEN [results |-> Append(res, SongRecord(hit)), fetched |-> n + 1]
              ELSE ScanHitsByTitle(Tail(hits), Append(res, SongRecord(hit)), n + 1, lim)
         ELSE ScanHitsByTitle(Tail(hits), res, n, lim)

\* lines 188-202: the for loop over the hits of one page, with its break
RECURSIVE ScanHits(_, _, _, _)
ScanHits(hits, res, n, lim) ==
    IF hits = <<>> THEN [results |-> res, fetched |-> n]
    ELSE LET hit == Head(hits) IN
         IF AcceptedArtist(hit.artist) /\ hit.id \notin ResultIds(res)
         THEN IF n + 1 >= lim
              THEN [results |-> Append(res, SongRecord(hit)), fetched |-> n + 1]
              ELSE ScanHits(Tail(hits), Append(res, SongRecord(hit)), n + 1, lim)
         ELSE ScanHits(Tail(hits), res, n, lim)

\* a variant that never leaves the loop on an empty page
NeverBreak(section) == FALSE

\* line 187: if not section: break
BreakOnEmpty(section) == section = <<>>

\* history: per id, the first hit of the pages so far, whatever its artist
FirstHitsSeen(known, section) ==
    [id \in SongIds |->
        IF known[id] # <<>> THEN known[id]
        ELSE LET at == {i \in 1..Len(section) : section[i].id = id}
             IN  IF at = {} THEN <<>>
                 ELSE << section[CHOOSE i \in at : \A j \in at : i <= j] >>]

\* history: per id, the first hit of the pages so far that passes line 191
FirstHitsAccepted(known, section) ==
    [id \in SongIds |->
        IF known[id] # <<>> THEN known[id]
        ELSE LET at == {i \in 1..Len(section) :
                           section[i].id = id /\ AcceptedArtist(section[i].artist)}
             IN  IF at = {} THEN <<>>
                 ELSE << section[CHOOSE i \in at : \A j \in at : i <= j] >>]

(***************************************************************************)
(* Lyrics fetcher                                                          *)
(***************************************************************************)
\* what requests.get and the page may do: the request raises, or the page has
\* lyrics containers, only the old lyrics div, or neither
FetchEvents ==
    { [kind |-> "error", text |-> <<>>], [kind |-> "none", text |-> <<>>],
      [kind |-> "containers", text |-> <<>>], [kind |-> "containers", text |-> <<"a">>],
      [kind |-> "containers", text |-> <<"B", "a">>], [kind |-> "div", text |-> <<"a">>] }

\* fetch_lyrics_from_url: the text, "" for a page without lyrics or an exception
fetch_lyrics_from_url(event) ==
    IF event.kind \in {"containers", "div"} THEN event.text ELSE <<>>

(***************************************************************************)
(* main                                                                    *)
(***************************************************************************)
\* f"{s['title']} {s.get('release_date_for_display','') or ''}"
MetaOf(song) ==
    song.title \o <<" ">>
      \o (IF song.release_date_for_display = None THEN <<>> ELSE song.release_date_for_display)

\* lines 296-309: the rows of one song, per country and record in dict order
RECURSIVE MatchRows(_, _)
MatchRows(song, matches) ==
    IF matches = <<>> THEN <<>>
    ELSE LET m == Head(matches) IN
         [i \in 1..Len(m.types) |->
            [iso3 |-> m.iso3, country |-> COUNTRIES[m.iso3].name, type |-> m.types[i].type,
             song |-> song.title, album |-> None, year |-> song.release_date_for_display,
             lyric |-> m.types[i].lyric, language |-> Get(m.types[i], "language"),
             source |-> None, audio |-> None]]
           \o MatchRows(song, Tail(matches))

\* a variant that lets fetch errors through: empty lyrics are matched as well
SongRowsUnchecked(song, text) == MatchRows(song, find_matches(text, MetaOf(song)))

\* lines 291-309: nothing for empty lyrics, else the rows of the matches
SongRows(song, text) ==
    IF text = <<>> THEN <<>> ELSE MatchRows(song, find_matches(text, MetaOf(song)))

\* the code as a str, for a CSV row whose code the index lacks
StrOfCode(iso3) == IF iso3 = "XKX" THEN <<"X", "K", "X">> ELSE <<>>

\* the rows of the CSV file: iso3, song, and a country column that may be empty
CsvRows ==
    { [iso3 |-> "IND", song |-> <<"a">>, country |-> <<>>],
      [iso3 |-> "IND", song |-> <<"a">>, country |-> <<"B">>],
      [iso3 |-> "XKX", song |-> <<"a">>, country |-> <<>>] }

CsvFiles == SeqsUpTo(CsvRows, MaxCsvRows)

\* lines 316-327, one CSV row
SampleRow(r) ==
    [iso3 |-> r.iso3,
     country |-> IF r.country # <<>> THEN r.country
                 ELSE IF r.iso3 \in DOMAIN COUNTRIES THEN COUNTRIES[r.iso3].name
                 ELSE StrOfCode(r.iso3),
     type |-> "sample", song |-> r.song, album |-> None, year |-> None,
     lyric |-> <<>>, language |-> None, source |-> None, audio |-> None]

\* lines 334-343: the ref of a row
RefOf(r) ==
    [type |-> r.type, song |-> r.song, album |-> r.album, year |-> r.year,
     lyric |-> r.lyric, language |-> r.language, source |-> r.source, audio |-> r.audio]

\* a variant that puts each new ref in front of the refs of its country
RECURSIVE CollapsePrepending(_, _)
CollapsePrepending(rs, by_country) ==
    IF rs = <<>> THEN by_country
    ELSE LET r == Head(rs)
             at == {i \in 1..Len(by_country) : by_country[i].iso3 = r.iso3}
         IN  IF at = {}
             THEN CollapsePrepending(Tail(rs),
                     Append(by_country,
                            [iso3 |-> r.iso3, country |-> r.country, refs |-> <<RefOf(r)>>]))
             ELSE CollapsePrepending(Tail(rs),
                     [by_country EXCEPT ![CHOOSE i \in at : TRUE].refs = <<RefOf(r)>> \o @])

\* lines 330-343: by_country, a dict in insertion order
RECURSIVE Collapse(_, _)
Collapse(rs, by_country) ==
    IF rs = <<>> THEN by_country
    ELSE LET r == Head(rs)
             at == {i \in 1..Len(by_country) : by_country[i].iso3 = r.iso3}
         IN  IF at = {}
             THEN Collapse(Tail(rs),
                     Append(by_country,
                            [iso3 |-> r.iso3, country |-> r.country, refs |-> <<RefOf(r)>>]))
             ELSE Collapse(Tail(rs),
                     [by_country EXCEPT ![CHOOSE i \in at : TRUE].refs = Append(@, RefOf(r))])

\* sorted(..., key=lambda x: x["country"]): stable, by the display name
RECURSIVE SortByCountry(_)
SortByCountry(reports) ==
    IF reports = <<>> THEN <<>>
    ELSE LET first == CHOOSE i \in 1..Len(reports) :
                        /\ \A j \in 1..Len(reports) :
                              ~StrLess(reports[j].country, reports[i].country)
                        /\ \A j \in 1..(i - 1) : reports[j].country # reports[i].country
             rest == [k \in 1..(Len(reports) - 1) |->
                        IF k < first THEN reports[k] ELSE reports[k + 1]]
         IN  <<reports[first]>> \o SortByCountry(rest)

\* line 345
Report(rs) == SortByCountry(Collapse(rs, <<>>))

NoGet == [statuses |-> <<>>, outcome |-> "none", hits |-> 0]
NoHits == [id \in SongIds |-> <<>>]

InitMain ==
    /\ IndexBuilt
    /\ MatchIdle
    /\ pc = "start"
    /\ token \in BOOLEAN
    /\ limit \in 0..MaxLimit
    /\ add_samples \in BOOLEAN
    /\ results = <<>>
    /\ page = 0
    /\ fetched = 0
    /\ sent = <<>>
    /\ lastget = NoGet
    /\ firstSeen = NoHits
    /\ firstAccepted = NoHits
    /\ songs = <<>>
    /\ si = 0
    /\ fetchlog = <<>>
    /\ rows = <<>>
    /\ outfile = <<>>

\* line 281: get_token() raises SystemExit without the credential;
\* else line 284 calls search_mia_songs, whose line 183 sets its locals
CheckToken ==
    /\ pc = "start"
    /\ IF token
       THEN /\ pc' = "loop"
            /\ page' = 1
       ELSE /\ pc' = "aborted"
            /\ page' = page
    /\ UNCHANGED <<token, limit, add_samples, results, fetched, sent, lastget, firstSeen,
                   firstAccepted, songs, si, fetchlog, rows, outfile, indexVars, matchVars>>

\* lines 184-185 and 174-176: the loop goes on and genius_get sends its request
GeniusGetFirst ==
    /\ pc = "loop"
    /\ fetched < limit
    /\ page <= MaxPages
    /\ \E status \in Statuses :
        /\ lastget' = [statuses |-> <<status>>, outcome |-> "pending", hits |-> 0]
        /\ pc' = IF RetryStatus(status) THEN "retry" ELSE "status"
    /\ sent' = Append(sent, [page |-> page])
    /\ UNCHANGED <<token, limit, add_samples, results, page, fetched, firstSeen,
                   firstAccepted, songs, si, fetchlog, rows, outfile, indexVars, matchVars>>

\* lines 177-178: the one retry
GeniusGetRetry ==
    /\ pc = "retry"
    /\ \E status \in Statuses :
        lastget' = [lastget EXCEPT !.statuses = Append(@, status)]
    /\ sent' = Append(sent, [page |-> page])
    /\ pc' = "status"
    /\ UNCHANGED <<token, limit, add_samples, results, page, fetched, firstSeen,
                   firstAccepted, songs, si, fetchlog, rows, outfile, indexVars, matchVars>>

LastStatus == lastget.statuses[Len(lastget.statuses)]

\* a variant that swallows the error and ends the search with the songs so far
SwallowHTTPError ==
    /\ pc = "status"
    /\ RaisesForStatus(LastStatus)
    /\ lastget' = [lastget EXCEPT !.outcome = "raised"]
    /\ pc' = "break"
    /\ UNCHANGED <<token, limit, add_samples, results, page, fetched, sent, firstSeen,
                   firstAccepted, songs, si, fetchlog, rows, outfile, indexVars, matchVars>>

\* line 179 raises: nothing catches it in search_mia_songs or in main
RaiseHTTPError ==
    /\ pc = "status"
    /\ RaisesForStatus(LastStatus)
    /\ lastget' = [lastget EXCEPT !.outcome = "raised"]
    /\ pc' = "aborted"
    /\ UNCHANGED <<token, limit, add_samples, results, page, fetched, sent, firstSeen,
                   firstAccepted, songs, si, fetchlog, rows, outfile, indexVars, matchVars>>

\* line 180 returns the page, and lines 186-204 handle it
SearchPage ==
    /\ pc = "status"
    /\ ~RaisesForStatus(LastStatus)
    /\ \E section \in Pages :
        /\ lastget' = [lastget EXCEPT !.outcome = "returned", !.hits = Len(section)]
        /\ firstSeen' = FirstHitsSeen(firstSeen, section)
        /\ firstAccepted' = FirstHitsAccepted(firstAccepted, section)
        /\ IF BreakOnEmpty(section)
           THEN /\ pc' = "break"
                /\ UNCHANGED <<results, fetched, page>>
           ELSE /\ results' = ScanHits(section, results, fetched, limit).results
                /\ fetched' = ScanHits(section, results, fetched, limit).fetched
                /\ page' = page + 1
                /\ pc' = "loop"
    /\ UNCHANGED <<token, limit, add_samples, sent, songs, si, fetchlog, rows, outfile,
                   indexVars, matchVars>>

\* search_mia_songs is at its return statement
SearchEnds == pc = "break" \/ (pc = "loop" /\ ~(fetched < limit))

\* line 205, and line 287 of main; the locals of search_mia_songs are gone
SearchReturn ==
    /\ SearchEnds
    /\ songs' = results
    /\ pc' = "songs"
    /\ results' = <<>>
    /\ page' = 0
    /\ fetched' = 0
    /\ lastget' = NoGet
    /\ firstSeen' = NoHits
    /\ firstAccepted' = NoHits
    /\ UNCHANGED <<token, limit, add_samples, sent, si, fetchlog, rows, outfile,
                   indexVars, matchVars>>

\* lines 288-309, one song
ProcessSong ==
    /\ pc = "songs"
    /\ si < Len(songs)
    /\ \E event \in FetchEvents :
        LET text == fetch_lyrics_from_url(event) IN
        /\ rows' = rows \o SongRows(songs[si + 1], text)
        /\ fetchlog' = Append(fetchlog, [lyrics |-> text, before |-> Len(rows)])
    /\ si' = si + 1
    /\ UNCHANGED <<pc, token, limit, add_samples, results, page, fetched, sent, lastget, firstSeen,
                   firstAccepted, songs, outfile, indexVars, matchVars>>

\* lines 312-327: the sample rows, when --add-samples names a file
ReadSamples ==
    /\ pc = "songs"
    /\ si = Len(songs)
    /\ IF add_samples
       THEN \E file \in CsvFiles :
                rows' = rows \o [i \in 1..Len(file) |-> SampleRow(file[i])]
       ELSE rows' = rows
    /\ pc' = "assemble"
    /\ UNCHANGED <<token, limit, add_samples, results, page, fetched, sent, lastget,
                   firstSeen, firstAccepted, songs, si, fetchlog, outfile, indexVars,
                   matchVars>>

\* lines 330-348: collapse, sort, write
WriteReport ==
    /\ pc = "assemble"
    /\ outfile' = Append(outfile, Report(rows))
    /\ pc' = "done"
    /\ UNCHANGED <<token, limit, add_samples, results, page, fetched, sent, lastget,
                   firstSeen, firstAccepted, songs, si, fetchlog, rows, indexVars, matchVars>>

Next ==
    \/ CheckToken
    \/ GeniusGetFirst
    \/ GeniusGetRetry
    \/ RaiseHTTPError
    \/ SearchPage
    \/ SearchReturn
    \/ ProcessSong
    \/ ReadSamples
    \/ WriteReport

Spec == InitMain /\ [][Next]_vars

\* the interpreter does run the return statement of search_mia_songs once the
\* loop has ended: nothing else can happen at that point
FairSpec == InitMain /\ [][Next]_vars /\ WF_vars(SearchReturn)

(***************************************************************************)
(* Claims about search_mia_songs and genius_get                            *)
(***************************************************************************)
\* the page numbers of the search requests sent, in order
SearchPagesSent ==
    [i \in 1..Len(sent) |-> sent[i].page]

EmptyPageReturned == lastget.outcome = "returned" /\ lastget.hits = 0
LimitReached == pc = "loop" /\ fetched >= limit

\* the pages are asked for in the order 1, 2, 3, ..., a page at most twice
C3_PagesInOrder ==
    LET q == SearchPagesSent IN
    /\ Len(q) >= 1 => q[1] = 1
    /\ \A i \in 2..Len(q) : q[i] = q[i - 1] \/ q[i] = q[i - 1] + 1
    /\ \A i \in 3..Len(q) : q[i] # q[i - 2]
    /\ EmptyPageReturned => pc = "break"

\* a first request for a page is sent only with fewer than limit songs
\* collected and, after page 1, only when the page before had a hit
C3_NextPageOnlyIfNeeded ==
    (pc = "loop" /\ sent' # sent) =>
        /\ fetched < limit
        /\ page > 1 => (lastget.outcome = "returned" /\ lastget.hits >= 1)
        /\ sent' = Append(sent, [page |-> page])

\* after an empty page, or with limit songs collected, nothing more is sent
\* and the function returns
C3_StopsThenReturns ==
    (EmptyPageReturned \/ LimitReached) => (sent' = sent /\ pc' = "songs")

\* C3: search_mia_songs requests the pages in the order 1, 2, 3, ..., and page
\* k+1 only if page k had a hit and fewer than limit unique songs are collected;
\* after an empty page or with limit songs collected it requests nothing more
\* and returns; once the remote returns an empty page, the function terminates.
C3_Pagination ==
    /\ []C3_PagesInOrder
    /\ [][C3_NextPageOnlyIfNeeded]_vars
    /\ [][C3_StopsThenReturns]_vars
    /\ (EmptyPageReturned ~> pc = "songs")

\* page 2 was requested after a page 1 with hits, and came back empty
C3_Witness ==
    /\ EmptyPageReturned
    /\ page = 2
    /\ fetched >= 1
    /\ fetched < limit

\* C4 as stated: the returned list has pairwise distinct ids, only hits with an
\* accepted primary artist, at most limit elements, and each record is the
\* first hit seen for its identifier.
C4_FirstHitSeen ==
    SearchEnds =>
        /\ \A i, j \in 1..Len(results) : results[i].id = results[j].id => i = j
        /\ \A i \in 1..Len(results) : results[i].primary_artist \in {"M.I.A.", " Mia "}
        /\ Len(results) <= limit
        /\ \A i \in 1..Len(results) :
              firstSeen[results[i].id] = << [id |-> results[i].id, title |-> results[i].title,
                                            artist |-> results[i].primary_artist] >>

\* C4 as amended: as C4, but each record is the first hit seen for its
\* identifier among the hits with an accepted primary artist.
C4_FirstAcceptedHit ==
    SearchEnds =>
        /\ \A i, j \in 1..Len(results) : results[i].id = results[j].id => i = j
        /\ \A i \in 1..Len(results) : results[i].primary_artist \in {"M.I.A.", " Mia "}
        /\ Len(results) <= limit
        /\ \A i \in 1..Len(results) :
              firstAccepted[results[i].id] =
                  << [id |-> results[i].id, title |-> results[i].title,
                      artist |-> results[i].primary_artist] >>

\* the search ends with limit songs, one of them seen first under another
\* artist, and an id that came up again after it was collected
C4_Witness ==
    /\ SearchEnds
    /\ limit = 2
    /\ Len(results) = 2
    /\ \E id \in SongIds : firstSeen[id] # firstAccepted[id]

IsSuccess(status) == 200 <= status /\ status <= 299

\* a genius_get call sends at most two requests, and a second one exactly when
\* the first answer is 429; it returns on a success status of the last answer
\* and raises on any other
C5_Outcome ==
    /\ Len(lastget.statuses) <= 2
    /\ Len(lastget.statuses) = 2 => lastget.statuses[1] = 429
    /\ lastget.outcome \in {"returned", "raised"} =>
          /\ lastget.statuses[1] = 429 => Len(lastget.statuses) = 2
          /\ lastget.outcome = "returned" <=> IsSuccess(LastStatus)
    /\ pc = "retry" <=> (lastget.outcome = "pending" /\ lastget.statuses = <<429>>)

\* the step after the last answer decides: return on success, raise otherwise
C5_Decides ==
    pc = "status" =>
        /\ sent' = sent
        /\ lastget'.outcome = IF IsSuccess(LastStatus) THEN "returned" ELSE "raised"
        /\ lastget'.statuses = lastget.statuses

\* C5: genius_get sends a second request if and only if the first response is
\* 429 and never a third; the status of the last response decides: success
\* returns the decoded body, anything else, a second 429 included, raises.
C5_RetryOnceThenDecide == []C5_Outcome /\ [][C5_Decides]_vars

\* a second 429 raised
C5_Witness == lastget.statuses = <<429, 429>> /\ lastget.outcome = "raised"

(***************************************************************************)
(* Claims about main                                                       *)
(***************************************************************************)
RowCodes == {rows[i].iso3 : i \in 1..Len(rows)}

\* the refs of the rows of one country, in the order of the rows
RefsOfCode(code) ==
    LET q == SelectSeq(rows, LAMBDA r : r.iso3 = code) IN [i \in 1..Len(q) |-> RefOf(q[i])]

\* C6: every country code of the rows given to the assembler is in exactly one
\* CountryReport of the file, and the refs of that report are exactly the rows
\* of that code, in their order in the input list.
C6_GroupedInOrder ==
    pc = "done" =>
        LET out == outfile[1] IN
        /\ {out[i].iso3 : i \in 1..Len(out)} = RowCodes
        /\ \A i, j \in 1..Len(out) : out[i].iso3 = out[j].iso3 => i = j
        /\ \A i \in 1..Len(out) : out[i].refs = RefsOfCode(out[i].iso3)

\* a report written from matcher rows of two songs with the countries
\* interleaved, followed by a sample row of a country that has matcher rows
C6_Witness ==
    /\ pc = "done"
    /\ \E i, j, k \in 1..Len(rows) :
          /\ i < j /\ j < k
          /\ rows[i].iso3 = rows[k].iso3
          /\ rows[i].iso3 # rows[j].iso3
          /\ rows[k].type # "sample"
    /\ \E i, j \in 1..Len(rows) :
          rows[i].type # "sample" /\ rows[j].type = "sample" /\ rows[i].iso3 = rows[j].iso3

\* the rows the matcher produced
MatcherRows == SelectSeq(rows, LAMBDA r : r.type # "sample")

\* the number of matcher rows when song i was taken up, and after the last song
RowsBefore(i) == IF i <= Len(fetchlog) THEN fetchlog[i].before ELSE Len(MatcherRows)

\* the songs whose lyrics fetch failed or gave no text
Failed == {i \in 1..Len(fetchlog) : fetchlog[i].lyrics = <<>>}

\* the rows of songs from..si as if the failed songs were not in the list
RECURSIVE RowsWithoutFailed(_)
RowsWithoutFailed(from) ==
    IF from > Len(fetchlog) THEN <<>>
    ELSE (IF from \in Failed THEN <<>>
          ELSE MatchRows(songs[from], find_matches(fetchlog[from].lyrics, MetaOf(songs[from]))))
         \o RowsWithoutFailed(from + 1)

\* a fetch failure is never propagated and the run goes on to every song
FetchNeverAborts ==
    /\ pc = "aborted" => fetchlog = <<>>
    /\ pc \in {"assemble", "done"} => Len(fetchlog) = Len(songs)
    /\ Len(fetchlog) = si

\* C7 as stated: a song whose lyrics fetch fails or yields empty text
\* contributes no Mention, its title is in no ref produced by the matcher, the
\* failure is not propagated, the run goes on, and the Mentions of the other
\* songs are what they would be without the failed song.
C7_FailedSongTitleAbsent ==
    /\ FetchNeverAborts
    /\ \A i \in Failed :
          /\ RowsBefore(i + 1) = RowsBefore(i)
          /\ \A j \in 1..Len(MatcherRows) : MatcherRows[j].song # songs[i].title
    /\ MatcherRows = RowsWithoutFailed(1)

\* C7 as amended: as C7, but the title of the failed song is in a ref produced
\* by the matcher only through another song of the same title whose lyrics
\* were fetched.
C7_FailedSongContributesNothing ==
    /\ FetchNeverAborts
    /\ \A i \in Failed :
          /\ RowsBefore(i + 1) = RowsBefore(i)
          /\ \A j \in 1..Len(MatcherRows) :
                MatcherRows[j].song = songs[i].title =>
                    \E k \in 1..Len(fetchlog) :
                        /\ k \notin Failed
                        /\ songs[k].title = songs[i].title
                        /\ RowsBefore(k) < j /\ j <= RowsBefore(k + 1)
    /\ MatcherRows = RowsWithoutFailed(1)

\* the first of two songs failed, its title alone would have matched, and the
\* second song gave rows; the report is written
C7_Witness ==
    /\ pc = "done"
    /\ Len(songs) = 2
    /\ Failed = {1}
    /\ songs[1].title = <<"b">>
    /\ Len(MatcherRows) >= 2

\* the file is written at most once, only at the end, and never by a run that
\* aborted; without the credential nothing is sent; a raised search request
\* aborts the run
C10_State ==
    /\ Len(outfile) <= 1
    /\ outfile # <<>> => (pc = "done" /\ si = Len(songs) /\ Len(fetchlog) = Len(songs))
    /\ pc = "aborted" => outfile = <<>>
    /\ ~token => (sent = <<>> /\ fetchlog = <<>> /\ pc \in {"start", "aborted"})
    /\ lastget.outcome = "raised" => pc = "aborted"
    /\ pc = "aborted" => (~token \/ lastget.outcome = "raised")

\* the write is the last step of a run that processed every song, and an
\* aborted run does nothing more
C10_Step ==
    /\ outfile' # outfile => (pc = "assemble" /\ si = Len(songs) /\ pc' = "done")
    /\ pc = "aborted" => UNCHANGED vars
    /\ (pc = "start" /\ ~token) => pc' = "aborted"
    /\ (pc = "status" /\ LastStatus >= 400) => pc' = "aborted"

\* C10: the output file is written at most once and only after discovery has
\* returned and every discovered song has been processed; a missing credential
\* aborts before any request is sent, a fatal search request aborts the run,
\* and an aborted run never writes the file.
C10_WriteOnceAtEnd == []C10_State /\ [][C10_Step]_vars

\* a search request failed after songs had been collected: no report
C10_Witness ==
    /\ pc = "aborted"
    /\ lastget.outcome = "raised"
    /\ results # <<>>
    /\ page >= 2

====
